---- MODULE Spec2Model ----
(***************************************************************************)
(* Model of plot_sma_rsi_macd.py: the buy-signal evaluator                 *)
(* (check_buy_signal), the console report (print_signal_breakdown), the    *)
(* chart call (plot_stock) and the batch driver (main).                    *)
(*                                                                         *)
(* Two specifications share the variables:                                 *)
(*   Spec      the driver main(), from process start to exit;              *)
(*   SpecEval  check_buy_signal and print_signal_breakdown applied as pure *)
(*             functions to every indicator frame of a bounded grid.       *)
(***************************************************************************)
EXTENDS Integers, Sequences, FiniteSets, TLC

\* ------------------------------------------------------------------ bounds
\* Frames hold 0..MaxRows rows.
MaxRows == 3
\* The YAML ticker list holds 0..MaxTickers entries.
MaxTickers == 2

\* ------------------------------------------------------- program constants
\* "len(df) < 2"
MinRows == 2
\* "yesterday['RSI'] < 30 and today['RSI'] >= 30"
RsiThreshold == 30
\* "overall = match_count >= 2"
MinMatches == 2
\* "int((match_count / 3) * 100)"
NumSignals == 3
\* "sys.exit(1)"; also the interpreter's status after an uncaught exception
ExitFailure == 1
\* the interpreter's status when main() returns
ExitSuccess == 0
\* "len(sys.argv) != 2"
ExpectedArgc == 2

\* ------------------------------------------------------------ float values
\* A pandas cell is a float: either NaN (window not yet satisfied) or a
\* number.  NaN carries the payload 0 so that a coercion to zero is
\* expressible (and detectable).
NaN == [def |-> FALSE, v |-> 0]
Num(n) == [def |-> TRUE, v |-> n]

\* IEEE-754 comparisons as Python/numpy evaluate them: every ordered
\* comparison with a NaN operand is False.
LtNaNAsZero(a, b) == a.v < b.v
Lt(a, b) == a.def /\ b.def /\ a.v < b.v

Gt(a, b) == a.def /\ b.def /\ a.v > b.v

Ge(a, b) == a.def /\ b.def /\ a.v >= b.v

\* None (Python) for a missing date; real dates are the positive integers.
None == 0

\* A pandas Timestamp is always truthy, None is falsy ("if buy_date:").
Truthy(d) == d # None

\* ------------------------------------------------------ check_buy_signal
SignalNames == {"sma_crossover", "rsi_oversold", "macd_crossover"}

\* The dict literal {} returned for a short frame.
EmptyDict == [k \in {} |-> FALSE]

\* sum(signals.values())
SumValues(signals) == Cardinality({k \in DOMAIN signals : signals[k]})

sma_crossover(yesterday, today) ==
    Lt(yesterday.SMA20, yesterday.SMA50) /\ Gt(today.SMA20, today.SMA50)

rsi_oversold_strict(yesterday, today) ==
    Lt(yesterday.RSI, Num(RsiThreshold)) /\ Gt(today.RSI, Num(RsiThreshold))
rsi_oversold(yesterday, today) ==
    Lt(yesterday.RSI, Num(RsiThreshold)) /\ Ge(today.RSI, Num(RsiThreshold))

macd_crossover(yesterday, today) ==
    Lt(yesterday.MACD, yesterday.MACD_SIGNAL) /\ Gt(today.MACD, today.MACD_SIGNAL)

OverallAny(match_count) == match_count >= 1
Overall(match_count) == match_count >= MinMatches

\* df.index[-1]
FirstIndex(df) == df[1].ts
LastIndex(df) == df[Len(df)].ts

check_buy_signal(df) ==
    IF Len(df) < MinRows
    THEN [overall |-> FALSE, buy_date |-> None, signals |-> EmptyDict]
    ELSE LET yesterday == df[Len(df) - 1]
             today == df[Len(df)]
             signals == [sma_crossover |-> sma_crossover(yesterday, today),
                         rsi_oversold |-> rsi_oversold(yesterday, today),
                         macd_crossover |-> macd_crossover(yesterday, today)]
         IN [overall |-> Overall(SumValues(signals)),
             buy_date |-> LastIndex(df),
             signals |-> signals]

\* ------------------------------------------------- print_signal_breakdown
\* int((match_count / 3) * 100): the double quotient times 100, truncated
\* toward zero.  For match_count in 0..3 the doubles are 0.0, 33.33..,
\* 66.66.. and 100.0, whose truncations equal the integer quotient below.
ConfidenceRounded(match_count) == (2 * match_count * 100 + NumSignals) \div (2 * NumSignals)
Confidence(match_count) == (match_count * 100) \div NumSignals

\* A printed line that carries no data beyond its wording.
Line(kind) == [kind |-> kind]

\* The tick or cross printed for one flag.
Mark(b) == IF b THEN "tick" ELSE "cross"

\* The lines the function prints, or the KeyError it raises when a flag it
\* indexes is absent from the dict.
print_signal_breakdown(ticker, buy_date, signals) ==
    IF SignalNames \subseteq DOMAIN signals
    THEN [raised |-> FALSE,
          kind |-> "breakdown",
          ticker |-> ticker,
          date |-> buy_date,
          marks |-> <<Mark(signals["sma_crossover"]),
                      Mark(signals["rsi_oversold"]),
                      Mark(signals["macd_crossover"])>>,
          confidence |-> Confidence(SumValues(signals))]
    ELSE [raised |-> TRUE,
          kind |-> "KeyError",
          ticker |-> ticker,
          date |-> buy_date,
          marks |-> <<>>,
          confidence |-> 0]

\* ------------------------------------------------------------ plot_stock
\* "{ticker}_sma_plot.png"
Filename(ticker) == <<ticker, "_sma_plot.png">>

\* The chart the function saves: the buy marker is drawn only for a truthy
\* buy_date ("if buy_date: ax1.axvline(x=buy_date ...)").
plot_stock(df, ticker, buy_date) ==
    [kind |-> "savefig",
     file |-> Filename(ticker),
     rows |-> Len(df),
     marker |-> IF Truthy(buy_date) THEN buy_date ELSE None]

\* "buy_date if signal else None", the third argument main passes.
BuyDateAlways(r) == r.buy_date
BuyDateArg(r) == IF r.overall THEN r.buy_date ELSE None

\* ------------------------------------------------------------- the inputs
\* str.upper() on the symbols used here.
Upper(s) ==
    CASE s = "aapl" -> "AAPL"
      [] s = "msft" -> "MSFT"
      [] OTHER -> s

\* Entries of the YAML list: strings, or a scalar YAML resolves to a
\* non-string (a bare ON, NO, 123 or ~), which has no upper().
Entries == {[isStr |-> TRUE, s |-> "aapl"],
            [isStr |-> TRUE, s |-> "ZZZZ"],
            [isStr |-> FALSE, s |-> "True"]}

RECURSIVE SeqsOf(_, _)
SeqsOf(S, n) ==
    IF n = 0 THEN {<<>>}
    ELSE LET shorter == SeqsOf(S, n - 1)
         IN shorter \cup {Append(q, e) : q \in {x \in shorter : Len(x) = n - 1}, e \in S}

\* What yaml.safe_load returns: None for an empty file, else a mapping with
\* or without the key "tickers".
YamlDocs ==
    {[isNone |-> TRUE, hasKey |-> FALSE, tickers |-> <<>>],
     [isNone |-> FALSE, hasKey |-> FALSE, tickers |-> <<>>]}
    \cup {[isNone |-> FALSE, hasKey |-> TRUE, tickers |-> t] : t \in SeqsOf(Entries, MaxTickers)}

\* The document of a path that names no file: never read.
NoDoc == [isNone |-> TRUE, hasKey |-> FALSE, tickers |-> <<>>]

\* sys.argv[1:]: nothing, one argument (a ticker symbol or a YAML path, which
\* may or may not name an existing file), or two arguments.
Arguments == {[name |-> "msft", symbol |-> TRUE],
              [name |-> "tickers.yaml", symbol |-> FALSE]}

CommandLines ==
    {<<>>}
    \cup {<<a>> : a \in Arguments}
    \cup {<<a, a>> : a \in Arguments}

\* The timestamp of the j-th trading day of a series.
DateOf(j) == j

\* The frame stock.history returns: n rows, Close all-NaN or all defined.
PriceFrame(n, allNaN) ==
    [j \in 1..n |-> [ts |-> DateOf(j), Close |-> IF allNaN THEN NaN ELSE Num(1)]]

\* df.empty or df['Close'].isna().all()
NoData(df) == Len(df) = 0 \/ \A j \in 1..Len(df) : ~df[j].Close.def

\* Indicator columns of the last two rows, one scenario per signal: the fast
\* line crosses the slow one, the lines stay equal, or the previous row is
\* still in its warm-up window.
Scenarios == {"cross", "flat", "nan"}

LinesOf(s, last) ==
    CASE s = "cross" -> IF last THEN <<Num(2), Num(1)>> ELSE <<Num(1), Num(2)>>
      [] s = "flat" -> <<Num(1), Num(1)>>
      [] OTHER -> IF last THEN <<Num(2), Num(1)>> ELSE <<NaN, NaN>>

RsiOf(s, last) ==
    CASE s = "cross" -> IF last THEN Num(RsiThreshold) ELSE Num(RsiThreshold - 1)
      [] s = "flat" -> Num(RsiThreshold)
      [] OTHER -> IF last THEN Num(RsiThreshold) ELSE NaN

\* calculate_indicators: the columns SMA20, SMA50, RSI, MACD, MACD_SIGNAL are
\* added to every row; rows before the last two are in warm-up (NaN).
calculate_indicators(df, sma, rsi, macd) ==
    [j \in 1..Len(df) |->
        LET last == (j = Len(df))
            warm == (j < Len(df) - 1)
        IN [ts |-> df[j].ts,
            Close |-> df[j].Close,
            SMA20 |-> IF warm THEN NaN ELSE LinesOf(sma, last)[1],
            SMA50 |-> IF warm THEN NaN ELSE LinesOf(sma, last)[2],
            RSI |-> IF warm THEN NaN ELSE RsiOf(rsi, last),
            MACD |-> IF warm THEN NaN ELSE LinesOf(macd, last)[1],
            MACD_SIGNAL |-> IF warm THEN NaN ELSE LinesOf(macd, last)[2]]]

\* ------------------------------------------------------------------ state
VARIABLES
    pc,        \* where main() (or the function under evaluation) stands
    argv,      \* sys.argv[1:]
    exists,    \* Path(sys.argv[1]).exists()
    doc,       \* what yaml.safe_load yields for the file
    tickers,   \* main's list
    i,         \* 1-based position of the for loop in tickers
    ticker,    \* main's loop variable after upper()
    df,        \* main's frame
    result,    \* (signal, buy_date, signals)
    console,   \* lines printed and files written since the iteration began
    fetched,   \* tickers handed to fetch_stock_data, in call order
    errors,    \* tickers whose failure the except clause reported
    exitCode   \* process exit status; -1 while running

vars == <<pc, argv, exists, doc, tickers, i, ticker, df, result, console,
          fetched, errors, exitCode>>

Running == -1

NoResult == [overall |-> FALSE, buy_date |-> None, signals |-> EmptyDict]

Init ==
    /\ pc = "args"
    /\ argv \in CommandLines
    /\ exists \in BOOLEAN
    /\ doc \in (IF exists THEN YamlDocs ELSE {NoDoc})
    /\ tickers = <<>>
    /\ i = 0
    /\ ticker = ""
    /\ df = <<>>
    /\ result = NoResult
    /\ console = <<>>
    /\ fetched = <<>>
    /\ errors = <<>>
    /\ exitCode = Running

\* sys.exit(1) after a message, or the interpreter ending on an uncaught
\* exception (traceback, status 1).
Exit(line, code) ==
    /\ console' = Append(console, Line(line))
    /\ exitCode' = code
    /\ pc' = "done"

\* "if len(sys.argv) != 2: print(Usage ...); sys.exit(1)"
CheckArgs ==
    /\ pc = "args"
    /\ IF Len(argv) + 1 # ExpectedArgc
       THEN Exit("usage", ExitFailure)
       ELSE /\ pc' = "path"
            /\ UNCHANGED <<console, exitCode>>
    /\ UNCHANGED <<argv, exists, doc, tickers, i, ticker, df, result, fetched, errors>>

\* Path(yaml_file).exists()
PathAlwaysExists(e) == TRUE
PathExists(e) == e

\* "if not Path(yaml_file).exists(): print(YAML file not found); sys.exit(1)"
CheckPath ==
    /\ pc = "path"
    /\ IF ~PathExists(exists)
       THEN Exit("yaml_not_found", ExitFailure)
       ELSE /\ pc' = "load"
            /\ UNCHANGED <<console, exitCode>>
    /\ UNCHANGED <<argv, exists, doc, tickers, i, ticker, df, result, fetched, errors>>

\* Python truthiness of a list: "if not tickers".
NeverFalsy(t) == FALSE
Falsy(t) == Len(t) = 0

\* data.get("tickers", [])
load_tickers_from_yaml(d) == IF d.hasKey THEN d.tickers ELSE <<>>

\* "tickers = load_tickers_from_yaml(yaml_file); if not tickers: ...":
\* open() raises on a missing file and None.get raises on an empty file,
\* both uncaught.
LoadTickers ==
    /\ pc = "load"
    /\ IF ~exists
       THEN Exit("traceback_FileNotFoundError", ExitFailure) /\ UNCHANGED <<tickers, i>>
       ELSE IF doc.isNone
       THEN Exit("traceback_AttributeError", ExitFailure) /\ UNCHANGED <<tickers, i>>
       ELSE /\ tickers' = load_tickers_from_yaml(doc)
            /\ IF Falsy(tickers')
               THEN Exit("no_tickers", ExitFailure) /\ UNCHANGED i
               ELSE /\ pc' = "loop"
                    /\ i' = 1
                    /\ UNCHANGED <<console, exitCode>>
    /\ UNCHANGED <<argv, exists, doc, ticker, df, result, fetched, errors>>

\* "except Exception as e: print(Error processing ...)": the failure is
\* reported and the for loop goes on with the next entry.
except_Propagates ==
    /\ console' = Append(console, Line("traceback_Exception"))
    /\ exitCode' = ExitFailure
    /\ pc' = "done"
    /\ UNCHANGED <<i, errors>>
except_Exception ==
    /\ console' = Append(console, Line("error_processing"))
    /\ errors' = Append(errors, ticker)
    /\ i' = i + 1
    /\ pc' = "loop"
    /\ UNCHANGED exitCode

\* "for ticker in tickers: ticker = ticker.upper(); print(Analyzing ...)".
\* The loop ends when the list is exhausted and main returns; upper() on a
\* non-string entry raises AttributeError outside the try block.
NextTicker ==
    /\ pc = "loop"
    /\ IF i > Len(tickers)
       THEN /\ pc' = "done"
            /\ exitCode' = ExitSuccess
            /\ UNCHANGED <<ticker, console>>
       ELSE IF ~tickers[i].isStr
       THEN /\ console' = <<Line("traceback_AttributeError")>>
            /\ exitCode' = ExitFailure
            /\ pc' = "done"
            /\ UNCHANGED ticker
       ELSE /\ ticker' = Upper(tickers[i].s)
            /\ console' = <<Line("analyzing")>>
            /\ pc' = "fetch"
            /\ UNCHANGED exitCode
    /\ UNCHANGED <<argv, exists, doc, tickers, i, df, result, fetched, errors>>

\* "df = fetch_stock_data(ticker)": yfinance returns a frame or raises; an
\* empty or all-NaN frame raises ValueError.
Fetch ==
    /\ pc = "fetch"
    /\ fetched' = Append(fetched, ticker)
    /\ \/ \E n \in 0..MaxRows, allNaN \in BOOLEAN :
            LET frame == PriceFrame(n, allNaN)
            IN IF NoData(frame)
               THEN except_Exception /\ UNCHANGED df
               ELSE /\ df' = frame
                    /\ pc' = "calc"
                    /\ UNCHANGED <<i, errors, console, exitCode>>
       \/ except_Exception /\ UNCHANGED df
    /\ UNCHANGED <<argv, exists, doc, tickers, ticker, result>>

\* "df = calculate_indicators(df)": pandas and ta fill the columns or raise.
Calculate ==
    /\ pc = "calc"
    /\ \/ \E sma \in Scenarios, rsi \in Scenarios, macd \in Scenarios :
            /\ df' = calculate_indicators(df, sma, rsi, macd)
            /\ pc' = "eval"
            /\ UNCHANGED <<i, errors, console, exitCode>>
       \/ except_Exception /\ UNCHANGED df
    /\ UNCHANGED <<argv, exists, doc, tickers, ticker, result, fetched>>

\* "signal, buy_date, signals = check_buy_signal(df)"
Evaluate ==
    /\ pc = "eval"
    /\ result' = check_buy_signal(df)
    /\ pc' = "report"
    /\ UNCHANGED <<argv, exists, doc, tickers, i, ticker, df, console, fetched,
                   errors, exitCode>>

\* "if signal: print_signal_breakdown(...) else: print(No buy signal ...)"
Report ==
    /\ pc = "report"
    /\ \/ IF result.overall
          THEN LET printed == print_signal_breakdown(ticker, result.buy_date, result.signals)
               IN IF printed.raised
                  THEN except_Exception
                  ELSE /\ console' = Append(console, printed)
                       /\ pc' = "plot"
                       /\ UNCHANGED <<i, errors, exitCode>>
          ELSE /\ console' = Append(console, Line("no_buy_signal"))
               /\ pc' = "plot"
               /\ UNCHANGED <<i, errors, exitCode>>
       \/ except_Exception
    /\ UNCHANGED <<argv, exists, doc, tickers, ticker, df, result, fetched>>

\* "plot_stock(df, ticker, buy_date if signal else None)": the chart is saved
\* and the file name printed, or matplotlib raises.
Plot ==
    /\ pc = "plot"
    /\ \/ /\ console' = console \o <<plot_stock(df, ticker, BuyDateArg(result)), Line("plot_saved")>>
          /\ i' = i + 1
          /\ pc' = "loop"
          /\ UNCHANGED <<errors, exitCode>>
       \/ except_Exception
    /\ UNCHANGED <<argv, exists, doc, tickers, ticker, df, result, fetched>>

Next ==
    \/ CheckArgs
    \/ CheckPath
    \/ LoadTickers
    \/ NextTicker
    \/ Fetch
    \/ Calculate
    \/ Evaluate
    \/ Report
    \/ Plot

Spec == Init /\ [][Next]_vars

\* ------------------------------------------- the evaluator on a value grid
\* check_buy_signal only orders a fast line against its slow line on the
\* same row, and the RSI against the threshold.  Two numbers per line cell
\* give every order (below, equal, above) of each compared pair, and three
\* RSI values give every order against the threshold, so every real-valued
\* frame has a grid frame on which all comparisons come out the same.
LineVals == {NaN, Num(1), Num(2)}

RsiVals == {NaN, Num(RsiThreshold - 1), Num(RsiThreshold), Num(RsiThreshold + 1)}

\* Every row of day t over the grid.
GridRows(t) ==
    {[ts |-> DateOf(t), Close |-> Num(1), SMA20 |-> a, SMA50 |-> b, RSI |-> r,
      MACD |-> c, MACD_SIGNAL |-> d] :
        a \in LineVals, b \in LineVals, r \in RsiVals, c \in LineVals, d \in LineVals}

\* Rows older than the last two: in warm-up, or fully defined with the fast
\* lines and the RSI low.
EarlyKinds == {"warmup", "low"}

EarlyRow(t, kind) ==
    IF kind = "warmup"
    THEN [ts |-> DateOf(t), Close |-> Num(1), SMA20 |-> NaN, SMA50 |-> NaN, RSI |-> NaN,
          MACD |-> NaN, MACD_SIGNAL |-> NaN]
    ELSE [ts |-> DateOf(t), Close |-> Num(1), SMA20 |-> Num(1), SMA50 |-> Num(2),
          RSI |-> Num(RsiThreshold - 1), MACD |-> Num(1), MACD_SIGNAL |-> Num(2)]

\* Every frame of n rows: the last two rows range over the grid.
GridFrames(n) ==
    IF n = 0 THEN {<<>>}
    ELSE IF n = 1 THEN {<<r>> : r \in GridRows(1)}
    ELSE {[j \in 1..n |-> IF j = n THEN cur ELSE IF j = n - 1 THEN prev ELSE EarlyRow(j, k)] :
            k \in (IF n = 2 THEN {"warmup"} ELSE EarlyKinds),
            prev \in GridRows(n - 1), cur \in GridRows(n)}

InitEval ==
    /\ pc = "eval"
    /\ argv = <<>>
    /\ exists = FALSE
    /\ doc = NoDoc
    /\ tickers = <<[isStr |-> TRUE, s |-> "aapl"]>>
    /\ i = 1
    /\ ticker = "AAPL"
    /\ \E n \in 0..MaxRows : df \in GridFrames(n)
    /\ result = NoResult
    /\ console = <<>>
    /\ fetched = <<"AAPL">>
    /\ errors = <<>>
    /\ exitCode = Running

\* print_signal_breakdown applied to the returned flags, whatever the verdict.
PrintBreakdown ==
    /\ pc = "report"
    /\ console' = <<print_signal_breakdown(ticker, result.buy_date, result.signals)>>
    /\ pc' = "printed"
    /\ UNCHANGED <<argv, exists, doc, tickers, i, ticker, df, result, fetched,
                   errors, exitCode>>

NextEval ==
    \/ Evaluate
    \/ PrintBreakdown

SpecEval == InitEval /\ [][NextEval]_vars

\* ================================================================= claims
\* check_buy_signal has returned for the frame df.
Evaluated == pc \in {"report", "printed"}

\* The last two rows of a frame of at least two rows.
PrevRow == df[Len(df) - 1]

CurRow == df[Len(df)]

\* Number of flags of the returned dict that are true.
TrueFlags == Cardinality({k \in DOMAIN result.signals : result.signals[k]})

\* C1: for every frame of at least two rows, whatever the three flags are,
\* the returned verdict is true exactly when at least 2 of the 3 flags are.
C1_TriggeredIffTwoOfThree ==
    (Evaluated /\ Len(df) >= 2) =>
        /\ DOMAIN result.signals = SignalNames
        /\ result.overall <=> (TrueFlags >= 2)

C1_Witness ==
    /\ pc = "report"
    /\ Len(df) >= 2
    /\ result.signals["sma_crossover"]
    /\ result.signals["rsi_oversold"]
    /\ ~result.signals["macd_crossover"]
    /\ result.overall

C3_ShortFrameDecision ==
    (Evaluated /\ Len(df) < 2) =>
        /\ ~result.overall
        /\ result.buy_date = None
        /\ Confidence(SumValues(result.signals)) = 0
        /\ DOMAIN result.signals = SignalNames
        /\ \A k \in SignalNames : ~result.signals[k]

\* C4: for a frame of at least two rows, a flag is false whenever one of the
\* cells it reads on the previous or the current row is NaN (the comparison
\* never takes the NaN for a number); the function returns a decision.
C4_UndefinedCellFlagFalse ==
    (Evaluated /\ Len(df) >= 2) =>
        /\ (~PrevRow.SMA20.def \/ ~PrevRow.SMA50.def \/ ~CurRow.SMA20.def \/ ~CurRow.SMA50.def)
              => ~result.signals["sma_crossover"]
        /\ (~PrevRow.RSI.def \/ ~CurRow.RSI.def)
              => ~result.signals["rsi_oversold"]
        /\ (~PrevRow.MACD.def \/ ~PrevRow.MACD_SIGNAL.def \/ ~CurRow.MACD.def
                \/ ~CurRow.MACD_SIGNAL.def)
              => ~result.signals["macd_crossover"]

\* A NaN read as zero would lie below the slow line here and fire the flag.
C4_Witness ==
    /\ pc = "report"
    /\ Len(df) >= 2
    /\ PrevRow.SMA20 = NaN
    /\ PrevRow.SMA50 = Num(1)
    /\ CurRow.SMA20 = Num(2)
    /\ CurRow.SMA50 = Num(1)
    /\ ~result.signals["sma_crossover"]

\* C8: for a frame of at least two rows the returned date is the timestamp
\* of the last row, whether or not the verdict is true.
C8_AsOfIsLastRow ==
    (Evaluated /\ Len(df) >= 2) => result.buy_date = DateOf(Len(df))

C8_Witness ==
    /\ pc = "report"
    /\ Len(df) = 3
    /\ ~result.overall
    /\ result.buy_date = DateOf(3)

\* C9: when every indicator cell of the last two rows is a number, the flags
\* are the reference ones computed from those two rows alone: a strict cross
\* from below to above for SMA and MACD, and RSI below 30 then at or above
\* 30; earlier rows do not matter.
AllDefined(row) ==
    /\ row.SMA20.def
    /\ row.SMA50.def
    /\ row.RSI.def
    /\ row.MACD.def
    /\ row.MACD_SIGNAL.def

C9_FlagsMatchReference ==
    (Evaluated /\ Len(df) >= 2 /\ AllDefined(PrevRow) /\ AllDefined(CurRow)) =>
        /\ result.signals["sma_crossover"] <=>
              (PrevRow.SMA20.v < PrevRow.SMA50.v /\ CurRow.SMA20.v > CurRow.SMA50.v)
        /\ result.signals["rsi_oversold"] <=>
              (PrevRow.RSI.v < 30 /\ CurRow.RSI.v >= 30)
        /\ result.signals["macd_crossover"] <=>
              (PrevRow.MACD.v < PrevRow.MACD_SIGNAL.v /\ CurRow.MACD.v > CurRow.MACD_SIGNAL.v)

\* RSI exactly 30 on the current row recovers; equal SMA lines on the current
\* row do not cross; the row before the last two is defined and low.
C9_Witness ==
    /\ pc = "report"
    /\ Len(df) = 3
    /\ AllDefined(df[1])
    /\ AllDefined(PrevRow)
    /\ AllDefined(CurRow)
    /\ PrevRow.RSI.v = 29
    /\ CurRow.RSI.v = 30
    /\ result.signals["rsi_oversold"]
    /\ PrevRow.SMA20.v < PrevRow.SMA50.v
    /\ CurRow.SMA20.v = CurRow.SMA50.v
    /\ ~result.signals["sma_crossover"]

\* ------------------------------------------------------ claims on main()
\* The kinds of the lines on the console, in order.
Kinds == [j \in 1..Len(console) |-> console[j].kind]

\* Every entry of the loaded list is a string, as the ticker file is meant
\* to list.
AllStrings == \A j \in 1..Len(tickers) : tickers[j].isStr

\* The symbols of the loaded list as the loop normalises them.
Symbols == [j \in 1..Len(tickers) |-> Upper(tickers[j].s)]

ZeroTickers == doc.isNone \/ ~doc.hasKey \/ Len(doc.tickers) = 0

\* Nothing was analysed: no fetch, no report, no chart.
NothingAnalysed ==
    /\ fetched = <<>>
    /\ \A j \in 1..Len(console) :
          console[j].kind \notin {"analyzing", "breakdown", "no_buy_signal", "savefig",
                                  "plot_saved"}

\* C6: the run ends with exit code 1 and analyses nothing when the argument
\* is absent (usage printed), when the path names no file, or when the file
\* yields zero tickers.
C6_StartupFailureExits1 ==
    (pc = "done" /\ (Len(argv) = 0 \/ ~exists \/ ZeroTickers)) =>
        /\ exitCode = 1
        /\ NothingAnalysed
        /\ Len(argv) = 0 => Kinds = <<"usage">>

\* An existing but empty file: the run dies in load_tickers_from_yaml.
C6_Witness ==
    /\ pc = "done"
    /\ Len(argv) = 1
    /\ exists
    /\ doc.isNone
    /\ exitCode = 1
    /\ Kinds = <<"traceback_AttributeError">>

\* The single argument is a ticker symbol that names no file.
SymbolArgument == Len(argv) = 1 /\ argv[1].symbol /\ ~exists

\* C7 as stated: a single ticker-symbol argument runs that one ticker
\* through fetch, indicators, evaluation, report and chart.
C7_SingleTickerMode ==
    (pc = "done" /\ SymbolArgument) =>
        /\ fetched = <<Upper(argv[1].name)>>
        /\ \E j \in 1..Len(console) : console[j].kind \in {"breakdown", "no_buy_signal"}

\* C7 amended: a single ticker-symbol argument that names no file is taken
\* for a YAML path: the run prints "YAML file not found", exits with code 1
\* and fetches, reports and charts nothing.
C7_SymbolTakenForPath ==
    SymbolArgument =>
        /\ pc \in {"args", "path", "done"}
        /\ pc = "done" =>
              (exitCode = 1 /\ Kinds = <<"yaml_not_found">> /\ NothingAnalysed)

C7_Witness ==
    /\ pc = "done"
    /\ SymbolArgument
    /\ Kinds = <<"yaml_not_found">>
    /\ exitCode = 1

\* C10: once fetch, indicators and evaluation have succeeded for a ticker,
\* exactly one report precedes the chart: the breakdown with its confidence
\* when the decision is triggered, else the no-signal line; and the chart
\* carries the signal date as marker when triggered and no marker otherwise.
C10_ReportThenChart ==
    /\ pc = "plot" =>
          /\ Len(console) = 2
          /\ Kinds[1] = "analyzing"
          /\ Kinds[2] = (IF result.overall THEN "breakdown" ELSE "no_buy_signal")
          /\ result.overall =>
                (console[2].ticker = ticker /\ console[2].confidence \in {66, 100})
    /\ (Len(console) > 0 /\ Kinds[Len(console)] = "plot_saved") =>
          /\ Kinds = <<"analyzing",
                       IF result.overall THEN "breakdown" ELSE "no_buy_signal",
                       "savefig", "plot_saved">>
          /\ console[3].file = Filename(ticker)
          /\ console[3].marker = (IF result.overall THEN result.buy_date ELSE None)
          /\ result.overall <=> (console[3].marker # None)

\* A chart without marker for a decision that is dated but not triggered.
C10_Witness ==
    /\ pc = "loop"
    /\ Kinds = <<"analyzing", "no_buy_signal", "savefig", "plot_saved">>
    /\ ~result.overall
    /\ result.buy_date # None
    /\ console[3].marker = None

====
